---- MODULE Spec2Model ----
(***************************************************************************)
(* Scorify/dns: the DNS check plugin.  Validate(config) parses a config    *)
(* string with the schema library and checks its five fields; Run(ctx,     *)
(* config) parses the config string, builds a resolver whose Dial is       *)
(* overridden to reach the configured server, issues one lookup selected   *)
(* by the record type, normalises the answer to strings and looks for the  *)
(* expected output among them.                                             *)
(*                                                                         *)
(* The model follows src/main.go.  The Go resolver (package net) and the   *)
(* schema and json decoders are the environment of that code: they are     *)
(* modelled at the call sites, by what they do to the values the code      *)
(* hands them and receives from them.                                      *)
(***************************************************************************)
EXTENDS Integers, Sequences, FiniteSets, TLC

(***************************************************************************)
(* Bounds of the model.                                                    *)
(***************************************************************************)
\* The clock runs from 0 to MaxTime.
MaxTime == 2
\* Deadlines a caller puts on the context: 0..MaxDeadline.
MaxDeadline == 2
\* Dial attempts the resolver makes during one lookup.
MaxDials == 2
\* Records in one DNS answer.
MaxRecords == 2

(***************************************************************************)
(* Program constants.                                                      *)
(***************************************************************************)
\* Schema.Port `default:"53"`
DefaultPort == 53
\* Validate: conf.Port < 1
MinPort == 1
\* Validate: conf.Port > 65535
MaxPort == 65535

\* Schema.Record `default:"A"`
DefaultRecord == "A"
\* Schema.Record `enum:"A,AAAA,CNAME,MX,NS,PTR,TXT"`, and the slice Validate
\* searches; the cases of Run's switch are the same seven.
RecordEnum == {"A", "AAAA", "CNAME", "MX", "NS", "PTR", "TXT"}

(***************************************************************************)
(* Strings: fmt and strings as the code uses them.                         *)
(***************************************************************************)
\* strings.Join(elems, sep)
RECURSIVE Join(_, _)
Join(elems, sep) ==
    IF Len(elems) = 0 THEN ""
    ELSE IF Len(elems) = 1 THEN elems[1]
    ELSE elems[1] \o sep \o Join(Tail(elems), sep)

\* fmt's %q of a string without characters that need escaping.
Quote(s) == "\"" \o s \o "\""

\* fmt.Sprintf("%s:%d", server, port)
ConnStr(server, port) == server \o ":" \o ToString(port)

(***************************************************************************)
(* net.IP and its String method.  An address is [v |-> 4, b |-> 4 bytes]   *)
(* or [v |-> 6, b |-> 8 groups of 16 bits].                                *)
(***************************************************************************)
IP4(a, b, c, d) == [v |-> 4, b |-> <<a, b, c, d>>]
IP6(g) == [v |-> 6, b |-> g]

HexDigit == <<"0", "1", "2", "3", "4", "5", "6", "7",
              "8", "9", "a", "b", "c", "d", "e", "f">>

RECURSIVE Hex(_)
Hex(n) == IF n < 16 THEN HexDigit[n + 1]
          ELSE Hex(n \div 16) \o HexDigit[(n % 16) + 1]

\* The number of consecutive zero groups of g from position i on.
RECURSIVE ZeroRun(_, _)
ZeroRun(g, i) == IF i > Len(g) \/ g[i] # 0 THEN 0 ELSE 1 + ZeroRun(g, i + 1)

\* The start of the leftmost longest run of two or more zero groups, 0 if none.
ZeroStart(g) ==
    LET best == CHOOSE i \in 1..Len(g) :
                    /\ \A j \in 1..Len(g) : ZeroRun(g, j) <= ZeroRun(g, i)
                    /\ \A j \in 1..(i - 1) : ZeroRun(g, j) < ZeroRun(g, i)
    IN IF ZeroRun(g, best) >= 2 THEN best ELSE 0

RECURSIVE Render6(_, _, _, _)
Render6(g, i, e0, colon) ==
    IF i > Len(g) THEN ""
    ELSE IF i = e0 THEN "::" \o Render6(g, i + ZeroRun(g, i), e0, FALSE)
    ELSE (IF colon THEN ":" ELSE "") \o Hex(g[i]) \o Render6(g, i + 1, e0, TRUE)

\* ip.String()
IPString(ip) ==
    IF ip.v = 4
    THEN Join(<<ToString(ip.b[1]), ToString(ip.b[2]),
                ToString(ip.b[3]), ToString(ip.b[4])>>, ".")
    ELSE Render6(ip.b, 1, ZeroStart(ip.b), FALSE)

(***************************************************************************)
(* Errors.  An error value is its kind and its text; Nil is Go's nil.      *)
(***************************************************************************)
Nil == [kind |-> "nil", text |-> ""]
Err(kind, text) == [kind |-> kind, text |-> text]

(***************************************************************************)
(* Config strings.  A config is a JSON text: either malformed, or an       *)
(* object, modelled as the value of each key (Absent for a key it does     *)
(* not hold).                                                              *)
(***************************************************************************)
Absent == [t |-> "absent", s |-> "", n |-> 0]
Str(s) == [t |-> "string", s |-> s, n |-> 0]
Num(n) == [t |-> "number", s |-> "", n |-> n]

\* The keys a config may hold: those of the Schema's `key` tags, and the two
\* field names that no tag names.
Keys == {"dns_server", "port", "record", "domain", "expected_output",
         "Server", "ExpectedOutput"}

Malformed == [wellFormed |-> FALSE, obj |-> [k \in Keys |-> Absent]]

MkConfig(ds, sv, p, r, d, eo, xo) ==
    [wellFormed |-> TRUE,
     obj |-> [k \in Keys |->
                 CASE k = "dns_server"      -> ds
                   [] k = "Server"          -> sv
                   [] k = "port"            -> p
                   [] k = "record"          -> r
                   [] k = "domain"          -> d
                   [] k = "expected_output" -> eo
                   [] k = "ExpectedOutput"  -> xo]]

\* type Schema struct: the zero value.
ZeroSchema == [Server |-> "", Port |-> 0, Record |-> "", Domain |-> "",
               ExpectedOutput |-> ""]

\* The `key` tag of each field of Schema.
KeyTag == [Server |-> "dns_server", Port |-> "port", Record |-> "record",
           Domain |-> "domain", ExpectedOutput |-> "expected_output"]

Fields == {"Server", "Port", "Record", "Domain", "ExpectedOutput"}
IntFields == {"Port"}

\* strings.ToLower on the keys and the field names (encoding/json matches a
\* key to a field without a json tag by the field's name, ignoring case).
Fold(s) ==
    CASE s = "Server"          -> "server"
      [] s = "Port"            -> "port"
      [] s = "Record"          -> "record"
      [] s = "Domain"          -> "domain"
      [] s = "ExpectedOutput"  -> "expectedoutput"
      [] OTHER                 -> s

\* The value a decoder stores in field f for JSON value v, and whether v has
\* the field's type.
TypeOk(f, v) == IF f \in IntFields THEN v.t = "number" ELSE v.t = "string"
FieldValue(f, v) == IF f \in IntFields THEN v.n ELSE v.s

\* schema.Unmarshal([]byte(config), &conf): each field is read from the key
\* its `key` tag names; a field whose key is absent takes its `default` tag,
\* if it has one; a value outside the field's `enum` tag is an error.
SchemaDefault ==
    [Server |-> Absent, Port |-> Num(DefaultPort), Record |-> Str(DefaultRecord),
     Domain |-> Absent, ExpectedOutput |-> Absent]

SchemaUnmarshal(config) ==
    IF ~config.wellFormed
    THEN [err |-> Err("parse", "invalid character"), conf |-> ZeroSchema]
    ELSE
      LET given(f) == IF config.obj[KeyTag[f]].t = "absent"
                      THEN SchemaDefault[f] ELSE config.obj[KeyTag[f]]
          conf == [f \in Fields |->
                     IF given(f).t = "absent" \/ ~TypeOk(f, given(f))
                     THEN ZeroSchema[f] ELSE FieldValue(f, given(f))]
      IN IF \E f \in Fields : given(f).t # "absent" /\ ~TypeOk(f, given(f))
         THEN [err |-> Err("parse", "invalid type"), conf |-> conf]
         ELSE IF conf.Record \notin RecordEnum
         THEN [err |-> Err("parse", "invalid enum value"), conf |-> conf]
         ELSE [err |-> Nil, conf |-> conf]

\* json.Unmarshal([]byte(config), &schema), Schema carrying no json tags: each
\* field is read from the key equal to the field's name, case ignored; absent
\* keys leave the zero value; a value of the wrong type is an error.
JsonUnmarshal(config) ==
    IF ~config.wellFormed
    THEN [err |-> Err("parse", "invalid character"), conf |-> ZeroSchema]
    ELSE
      LET hits(f) == {k \in Keys : Fold(k) = Fold(f) /\ config.obj[k].t # "absent"}
          given(f) == IF hits(f) = {} THEN Absent
                      ELSE config.obj[CHOOSE k \in hits(f) : TRUE]
          conf == [f \in Fields |->
                     IF given(f).t = "absent" \/ ~TypeOk(f, given(f))
                     THEN ZeroSchema[f] ELSE FieldValue(f, given(f))]
      IN IF \E f \in Fields : given(f).t # "absent" /\ ~TypeOk(f, given(f))
         THEN [err |-> Err("parse", "cannot unmarshal"), conf |-> conf]
         ELSE [err |-> Nil, conf |-> conf]

(***************************************************************************)
(* Validate                                                                *)
(***************************************************************************)
\* The range check without its upper limit.
PortOutOfRangeNoUpper(port) == port < MinPort

\* conf.Port < 1 || conf.Port > 65535
PortOutOfRange(port) == port < MinPort \/ port > MaxPort

\* func Validate(config string) error
Validate(config) ==
    LET u == SchemaUnmarshal(config)
        conf == u.conf
    IN IF u.err # Nil THEN u.err
       ELSE IF conf.Server = ""
       THEN Err("config", "server is required; got " \o Quote(conf.Server))
       ELSE IF conf.Port = 0
       THEN Err("config", "port is required; got " \o ToString(conf.Port))
       ELSE IF PortOutOfRange(conf.Port)
       THEN Err("config", "port must be between 1 and 65535; got "
                          \o ToString(conf.Port))
       ELSE IF conf.Record = ""
       THEN Err("config", "record is required; got " \o Quote(conf.Record))
       ELSE IF conf.Record \notin RecordEnum
       THEN Err("config", "record must be one of A, AAAA, CNAME, MX, NS, PTR, TXT; got "
                          \o Quote(conf.Record))
       ELSE IF conf.Domain = ""
       THEN Err("config", "domain is required; got " \o Quote(conf.Domain))
       ELSE IF conf.ExpectedOutput = ""
       THEN Err("config", "expected_output is required; got "
                          \o Quote(conf.ExpectedOutput))
       ELSE Nil

(***************************************************************************)
(* The lookups of net.Resolver that Run calls, and what they return.       *)
(***************************************************************************)
\* The switch of Run: the lookup each record type selects.
LookupOf(record, domain) ==
    CASE record = "A"     -> [op |-> "LookupIP",    network |-> "ip4", name |-> domain]
      [] record = "AAAA"  -> [op |-> "LookupIP",    network |-> "ip6", name |-> domain]
      [] record = "CNAME" -> [op |-> "LookupCNAME", network |-> "",    name |-> domain]
      [] record = "MX"    -> [op |-> "LookupMX",    network |-> "",    name |-> domain]
      [] record = "NS"    -> [op |-> "LookupNS",    network |-> "",    name |-> domain]
      [] record = "PTR"   -> [op |-> "LookupAddr",  network |-> "",    name |-> domain]
      [] record = "TXT"   -> [op |-> "LookupTXT",   network |-> "",    name |-> domain]

\* The records a server may hold.
IP4Pool  == {IP4(93, 184, 216, 34), IP4(10, 0, 0, 1)}
IP6Pool  == {IP6(<<0, 0, 0, 0, 0, 0, 0, 1>>), IP6(<<8193, 3512, 0, 0, 0, 0, 0, 1>>)}
HostPool == {"mail.example.com.", "ns1.example.com."}
MXPool   == {[Host |-> "mail.example.com.", Pref |-> 10],
             [Host |-> "ns1.example.com.", Pref |-> 20]}
NSPool   == {[Host |-> h] : h \in HostPool}
TXTPool  == {"v=spf1 -all", "mail.example.com"}

\* The non-empty sequences over pool of at most MaxRecords elements.
Answers(pool) == UNION {[1..k -> pool] : k \in 1..MaxRecords}

\* What a successful lookup may return: []net.IP, a string, []*net.MX,
\* []*net.NS or []string.
LookupValues(lookup) ==
    CASE lookup.op = "LookupIP" /\ lookup.network = "ip4" -> Answers(IP4Pool)
      [] lookup.op = "LookupIP" /\ lookup.network = "ip6" -> Answers(IP6Pool)
      [] lookup.op = "LookupCNAME" -> HostPool
      [] lookup.op = "LookupMX"    -> Answers(MXPool)
      [] lookup.op = "LookupNS"    -> Answers(NSPool)
      [] lookup.op = "LookupAddr"  -> Answers(HostPool)
      [] lookup.op = "LookupTXT"   -> Answers(TXTPool)

\* The domains of the configs, and the IP literal each one is, if any.
ParseAddr(name) ==
    CASE name = "1.2.3.4" -> [ok |-> TRUE,  ip |-> IP4(1, 2, 3, 4)]
      [] OTHER            -> [ok |-> FALSE, ip |-> IP4(0, 0, 0, 0)]

\* What a lookup returns: a value and an error.
Ret(val, err) == [val |-> val, err |-> err]
NoRet == Ret(<<>>, Nil)

\* Lookups the resolver answers by itself, without a connection: LookupIP
\* of an IP literal returns the literal, filtered by the network; LookupAddr
\* of a name that is no IP address fails; an empty name is no host.
IsLocal(lookup) ==
    \/ lookup.name = ""
    \/ lookup.op = "LookupIP" /\ ParseAddr(lookup.name).ok
    \/ lookup.op = "LookupAddr" /\ ~ParseAddr(lookup.name).ok

LocalRet(lookup) ==
    IF lookup.name = "" THEN Ret(<<>>, Err("lookup", "no such host"))
    ELSE IF lookup.op = "LookupAddr"
    THEN Ret(<<>>, Err("lookup", "unrecognized address"))
    ELSE IF (lookup.network = "ip4") = (ParseAddr(lookup.name).ip.v = 4)
    THEN Ret(<<ParseAddr(lookup.name).ip>>, Nil)
    ELSE Ret(<<>>, Err("lookup", "no suitable address found"))

\* The resolver's own servers (resolv.conf), which it asks Dial to reach, and
\* the networks it dials.
SystemServers == {"127.0.0.53:53", "8.8.8.8:53"}
DialNetworks == {"udp", "tcp"}

(***************************************************************************)
(* Contexts.  A deadline is [ok, at], as ctx.Deadline() returns it.        *)
(***************************************************************************)
NoDeadline == [ok |-> FALSE, at |-> 0]
DeadlineAt(t) == [ok |-> TRUE, at |-> t]

VARIABLES
    config,      \* the config string handed to Validate and to Run
    ctx,         \* the deadline of the context handed to Run
    cancelled,   \* whether that context has been cancelled
    now,         \* the clock
    pc,          \* "new", "idle", "lookup", "dialing", "exchange", "done"
    validateErr, \* what Validate returned
    conf,        \* Run's parsed Schema
    connStr,     \* Run's composed address
    lookups,     \* the lookups Run has called, in order
    nDials,      \* the number of calls of r.Dial during the lookup
    dial,        \* the last call of r.Dial
    lookupRet,   \* what the lookup returned
    lastErr,     \* the resolver's last failure
    addresses,   \* Run's normalized results
    result       \* what Run returned

vars == <<config, ctx, cancelled, now, pc, validateErr, conf, connStr, lookups,
          nDials, dial, lookupRet, lastErr, addresses, result>>

\* A context is done once cancelled or past its deadline.
Expired(dl) == dl.ok /\ now >= dl.at
CtxDone(dl) == cancelled \/ Expired(dl)
CtxErr(dl) == IF cancelled THEN Err("lookup", "operation was canceled")
              ELSE Err("lookup", "i/o timeout")

(***************************************************************************)
(* Run                                                                     *)
(***************************************************************************)
\* Run's parse of the config string.
RunUnmarshal(cfg) == JsonUnmarshal(cfg)

\* A Dial that reaches the address the resolver asked for.
DialCallbackAsked(cbCtx, network, address, target) ==
    IF ~cbCtx.ok
    THEN [err |-> Err("dial", "deadline not set"), deadline |-> NoDeadline,
          dialCtx |-> NoDeadline, ctxBound |-> FALSE,
          network |-> network, target |-> ""]
    ELSE [err |-> Nil, deadline |-> cbCtx, dialCtx |-> cbCtx, ctxBound |-> TRUE,
          network |-> network, target |-> address]

\* A Dial that sets no Deadline on its Dialer and dials under a fresh
\* context.Background().
DialCallbackUnbounded(cbCtx, network, address, target) ==
    IF ~cbCtx.ok
    THEN [err |-> Err("dial", "deadline not set"), deadline |-> NoDeadline,
          dialCtx |-> NoDeadline, ctxBound |-> FALSE,
          network |-> network, target |-> ""]
    ELSE [err |-> Nil, deadline |-> NoDeadline, dialCtx |-> NoDeadline,
          ctxBound |-> FALSE, network |-> network, target |-> target]

\* The body of r.Dial: called with the context, network and address the
\* resolver chose; returns an error, or the dial it starts: the Dialer's
\* Deadline, the context, network and address handed to DialContext.
DialCallback(cbCtx, network, address, target) ==
    IF ~cbCtx.ok
    THEN [err |-> Err("dial", "deadline not set"), deadline |-> NoDeadline,
          dialCtx |-> NoDeadline, ctxBound |-> FALSE,
          network |-> network, target |-> ""]
    ELSE [err |-> Nil, deadline |-> cbCtx, dialCtx |-> cbCtx, ctxBound |-> TRUE,
          network |-> network, target |-> target]

\* A normalisation that fills the results from the last record to the first.
NormalizeReversed(record, val) ==
    CASE record \in {"A", "AAAA"} ->
            [i \in 1..Len(val) |-> IPString(val[Len(val) + 1 - i])]
      [] record = "CNAME"         -> <<val>>
      [] record \in {"MX", "NS"}  -> [i \in 1..Len(val) |-> val[Len(val) + 1 - i].Host]
      [] record \in {"PTR", "TXT"} -> [i \in 1..Len(val) |-> val[Len(val) + 1 - i]]

\* The results Run builds from what the lookup returned.
Normalize(record, val) ==
    CASE record \in {"A", "AAAA"} -> [i \in 1..Len(val) |-> IPString(val[i])]
      [] record = "CNAME"         -> <<val>>
      [] record \in {"MX", "NS"}  -> [i \in 1..Len(val) |-> val[i].Host]
      [] record \in {"PTR", "TXT"} -> val

\* A match that looks at the first result only.
MatchFirstOnly(addrs, expected) == Len(addrs) > 0 /\ addrs[1] = expected

\* for _, address := range addresses { if address == ExpectedOutput ... }
Match(addrs, expected) == \E i \in 1..Len(addrs) : addrs[i] = expected

\* An error that lists the results without the last one.
NotFoundShort(expected, addrs) ==
    Err("match", "expected out " \o Quote(expected) \o " not found in ["
                 \o Join(SubSeq(addrs, 1, Len(addrs) - 1), ", ") \o "]")

\* The error of the last line of Run.
NotFound(expected, addrs) ==
    Err("match", "expected out " \o Quote(expected) \o " not found in ["
                 \o Join(addrs, ", ") \o "]")

\* A return that wraps the lookup's error.
LookupFailedWrapped(err) == Err(err.kind, "lookup failed: " \o err.text)

\* if err != nil { return err }
LookupFailed(err) == err

\* default: return fmt.Errorf("unsupported record type: %s", schema.Record)
Unsupported(record) == Err("unsupported", "unsupported record type: " \o record)

\* Run has not returned.
Pending == [kind |-> "pending", text |-> ""]

\* Run from the return of its lookup to its own return.
AfterLookup(ret) ==
    /\ lookupRet' = ret
    /\ IF ret.err # Nil
       THEN /\ result' = LookupFailed(ret.err)
            /\ addresses' = addresses
       ELSE /\ addresses' = Normalize(conf.Record, ret.val)
            /\ result' = IF Match(addresses', conf.ExpectedOutput) THEN Nil
                          ELSE NotFound(conf.ExpectedOutput, addresses')
    /\ pc' = "done"

(***************************************************************************)
(* The configs and contexts Run and Validate are called with.              *)
(***************************************************************************)
\* Configs written as the Schema's tags ask, with or without the keys that
\* have defaults.
TaggedConfigs ==
    {MkConfig(Str("1.1.1.1"), Absent, p, r, d, Str("93.184.216.34"), Absent) :
        p \in {Absent, Num(53)},
        r \in {Absent} \cup {Str(x) : x \in RecordEnum \cup {"SRV"}},
        d \in {Str("example.com")}}

\* Configs that also hold the keys named as the fields are.
NamedConfigs ==
    {MkConfig(Str("1.1.1.1"), Str("9.9.9.9"), Num(53), Str(r), d, Str(xo), Str(xo)) :
        r \in RecordEnum,
        d \in {Str("example.com"), Str("1.2.3.4")},
        xo \in {"93.184.216.34", "::1", "mail.example.com.", "mail.example.com"}}

\* A config whose port is a JSON string.
PortAsString ==
    MkConfig(Str("1.1.1.1"), Absent, Str("53"), Str("A"), Str("example.com"),
             Str("93.184.216.34"), Absent)

RunConfigs == TaggedConfigs \cup NamedConfigs \cup {Malformed, PortAsString}

\* No call of r.Dial yet.
NoDial == [asked |-> "", cb |-> NoDeadline, deadline |-> NoDeadline,
           dialCtx |-> NoDeadline, ctxBound |-> FALSE, network |-> "",
           target |-> "", status |-> "none"]

Contexts == {NoDeadline} \cup {DeadlineAt(t) : t \in 0..MaxDeadline}

Init ==
    /\ config \in RunConfigs
    /\ ctx \in Contexts
    /\ cancelled = FALSE
    /\ now = 0
    /\ pc = "new"
    /\ validateErr = Pending
    /\ conf = ZeroSchema
    /\ connStr = ""
    /\ lookups = <<>>
    /\ nDials = 0
    /\ dial = NoDial
    /\ lookupRet = NoRet
    /\ lastErr = Nil
    /\ addresses = <<>>
    /\ result = Pending

\* The host validates the config.
ValidateCall ==
    /\ pc = "new"
    /\ validateErr' = Validate(config)
    /\ pc' = "idle"
    /\ UNCHANGED <<config, ctx, cancelled, now, conf, connStr, lookups, nDials,
                   dial, lookupRet, lastErr, addresses, result>>

\* Run, from its call to the call of its lookup.
RunStart ==
    /\ pc = "idle"
    /\ LET u == RunUnmarshal(config) IN
       IF u.err # Nil
       THEN /\ result' = u.err
            /\ pc' = "done"
            /\ UNCHANGED <<conf, connStr, lookups>>
       ELSE /\ conf' = u.conf
            /\ connStr' = ConnStr(u.conf.Server, u.conf.Port)
            /\ IF u.conf.Record \in RecordEnum
               THEN /\ lookups' = Append(lookups,
                                         LookupOf(u.conf.Record, u.conf.Domain))
                    /\ pc' = "lookup"
                    /\ result' = result
               ELSE /\ result' = Unsupported(u.conf.Record)
                    /\ pc' = "done"
                    /\ lookups' = lookups
    /\ UNCHANGED <<config, ctx, cancelled, now, validateErr, nDials, dial, lookupRet,
                   lastErr, addresses>>

\* The lookup in progress.
CurLookup == lookups[Len(lookups)]

\* The resolver answers without a connection.
ResolverLocal ==
    /\ pc = "lookup"
    /\ IsLocal(CurLookup)
    /\ AfterLookup(LocalRet(CurLookup))
    /\ UNCHANGED <<config, ctx, cancelled, now, validateErr, conf, connStr,
                   lookups, nDials, dial, lastErr>>

\* The contexts the resolver hands to Dial: net's exchange derives one from
\* the lookup's context for each attempt, with the deadline of its own
\* timeout, so the earlier of the two deadlines.  MaxTime + 1 is a timeout
\* that does not pass within the clock's range.
CallbackCtxs ==
    IF ctx.ok
    THEN {DeadlineAt(ctx.at)} \cup {DeadlineAt(t) : t \in (now + 1)..ctx.at}
    ELSE {DeadlineAt(now + 1), DeadlineAt(MaxTime + 1)}

\* The resolver calls r.Dial.
ResolverDial ==
    /\ pc = "lookup"
    /\ ~IsLocal(CurLookup)
    /\ nDials < MaxDials
    /\ nDials' = nDials + 1
    /\ \E address \in SystemServers, network \in DialNetworks, cb \in CallbackCtxs :
         LET d == DialCallback(cb, network, address, connStr)
             call(st) == [asked |-> address, cb |-> cb, deadline |-> d.deadline,
                          dialCtx |-> d.dialCtx, ctxBound |-> d.ctxBound,
                          network |-> d.network, target |-> d.target,
                          status |-> st]
         IN IF d.err # Nil
            THEN /\ dial' = call("refused")
                 /\ lastErr' = Err("lookup", d.err.text)
                 /\ pc' = pc
            ELSE /\ dial' = call("dialing")
                 /\ lastErr' = lastErr
                 /\ pc' = "dialing"
    /\ UNCHANGED <<config, ctx, cancelled, now, validateErr, conf, connStr,
                   lookups, lookupRet, addresses, result>>

\* DialContext gives up at the Dialer's Deadline, and at the deadline or the
\* cancellation of the context it was handed.
DialOver(d) ==
    \/ Expired(d.deadline)
    \/ d.ctxBound /\ CtxDone(d.dialCtx)

\* d.DialContext connects.
DialSucceed ==
    /\ pc = "dialing"
    /\ ~DialOver(dial)
    /\ dial' = [dial EXCEPT !.status = "open"]
    /\ pc' = "exchange"
    /\ UNCHANGED <<config, ctx, cancelled, now, validateErr, conf, connStr,
                   lookups, nDials, lookupRet, lastErr, addresses, result>>

\* d.DialContext fails.
DialFail ==
    /\ pc = "dialing"
    /\ ~DialOver(dial)
    /\ dial' = [dial EXCEPT !.status = "failed"]
    /\ lastErr' = Err("lookup", "connection refused")
    /\ pc' = "lookup"
    /\ UNCHANGED <<config, ctx, cancelled, now, validateErr, conf, connStr,
                   lookups, nDials, lookupRet, addresses, result>>

\* d.DialContext is cut short by its deadline or its context.
DialAbort ==
    /\ pc = "dialing"
    /\ DialOver(dial)
    /\ dial' = [dial EXCEPT !.status = "aborted"]
    /\ lastErr' = CtxErr(dial.deadline)
    /\ pc' = "lookup"
    /\ UNCHANGED <<config, ctx, cancelled, now, validateErr, conf, connStr,
                   lookups, nDials, lookupRet, addresses, result>>

\* The server answers the query.
Reply ==
    /\ pc = "exchange"
    /\ ~CtxDone(dial.cb)
    /\ \E val \in LookupValues(CurLookup) : AfterLookup(Ret(val, Nil))
    /\ UNCHANGED <<config, ctx, cancelled, now, validateErr, conf, connStr,
                   lookups, nDials, dial, lastErr>>

\* The server answers with a failure.
ReplyFail ==
    /\ pc = "exchange"
    /\ ~CtxDone(dial.cb)
    /\ \E text \in {"no such host", "server misbehaving"} :
         lastErr' = Err("lookup", text)
    /\ pc' = "lookup"
    /\ UNCHANGED <<config, ctx, cancelled, now, validateErr, conf, connStr,
                   lookups, nDials, dial, lookupRet, addresses, result>>

\* The exchange is cut short by the deadline or the cancellation of the
\* resolver's context.
ExchangeAbort ==
    /\ pc = "exchange"
    /\ CtxDone(dial.cb)
    /\ lastErr' = CtxErr(dial.cb)
    /\ pc' = "lookup"
    /\ UNCHANGED <<config, ctx, cancelled, now, validateErr, conf, connStr,
                   lookups, nDials, dial, lookupRet, addresses, result>>

\* The resolver stops trying: the lookup returns its last failure.
ResolverGiveUp ==
    /\ pc = "lookup"
    /\ ~IsLocal(CurLookup)
    /\ lastErr # Nil
    /\ AfterLookup(Ret(<<>>, lastErr))
    /\ UNCHANGED <<config, ctx, cancelled, now, validateErr, conf, connStr,
                   lookups, nDials, dial, lastErr>>

InFlight == pc \in {"lookup", "dialing", "exchange"}

\* Time passes.
Tick ==
    /\ InFlight
    /\ now < MaxTime
    /\ now' = now + 1
    /\ UNCHANGED <<config, ctx, cancelled, pc, validateErr, conf, connStr,
                   lookups, nDials, dial, lookupRet, lastErr, addresses, result>>

\* The caller cancels the context.
Cancel ==
    /\ InFlight
    /\ ~cancelled
    /\ cancelled' = TRUE
    /\ UNCHANGED <<config, ctx, now, pc, validateErr, conf, connStr,
                   lookups, nDials, dial, lookupRet, lastErr, addresses, result>>

Next ==
    \/ ValidateCall
    \/ RunStart
    \/ ResolverLocal
    \/ ResolverDial
    \/ DialSucceed
    \/ DialFail
    \/ DialAbort
    \/ Reply
    \/ ReplyFail
    \/ ExchangeAbort
    \/ ResolverGiveUp
    \/ Tick
    \/ Cancel

Spec == Init /\ [][Next]_vars

(***************************************************************************)
(* The resolver and the runtime's timers run: a dial or an exchange whose  *)
(* deadline has passed or whose context is cancelled is cut short, and the *)
(* resolver takes its next step.                                           *)
(***************************************************************************)
ResolverStep == ResolverLocal \/ ResolverDial \/ ResolverGiveUp

LiveConfigs ==
    {MkConfig(Str("1.1.1.1"), Str("9.9.9.9"), Num(53), Str(r), d,
              Str("mail.example.com."), Str("mail.example.com.")) :
        r \in RecordEnum, d \in {Str("example.com"), Str("1.2.3.4")}}

LiveInit == Init /\ config \in LiveConfigs

FairSpec ==
    /\ LiveInit
    /\ [][Next]_vars
    /\ WF_vars(DialAbort)
    /\ WF_vars(ExchangeAbort)
    /\ WF_vars(ResolverStep)

(***************************************************************************)
(* Validate alone, over a wider set of configs.                            *)
(***************************************************************************)
ValidateConfigs ==
    {MkConfig(ds, Absent, p, r, d, eo, Absent) :
        ds \in {Absent, Str(""), Str("1.1.1.1")},
        p \in {Absent, Str("53")}
              \cup {Num(n) : n \in {-1, 0, 1, 53, MaxPort, MaxPort + 1}},
        r \in {Absent, Str("")} \cup {Str(x) : x \in RecordEnum \cup {"SRV", "a"}},
        d \in {Absent, Str(""), Str("example.com")},
        eo \in {Absent, Str(""), Str("93.184.216.34")}}
    \cup {Malformed}

ValidateInit ==
    /\ config \in ValidateConfigs
    /\ ctx = NoDeadline
    /\ cancelled = FALSE
    /\ now = 0
    /\ pc = "new"
    /\ validateErr = Pending
    /\ conf = ZeroSchema
    /\ connStr = ""
    /\ lookups = <<>>
    /\ nDials = 0
    /\ dial = NoDial
    /\ lookupRet = NoRet
    /\ lastErr = Nil
    /\ addresses = <<>>
    /\ result = Pending

ValidateSpec == ValidateInit /\ [][ValidateCall]_vars

(***************************************************************************)
(* Properties                                                              *)
(***************************************************************************)
\* Run has called its lookup and the lookup has returned without error.
LookupSucceeded == pc = "done" /\ lookups # <<>> /\ lookupRet.err = Nil

\* C1: if the context handed to Run has no deadline, then, for every record
\* type and every domain, no dial is started, no lookup answer is obtained,
\* and Run fails with the deadline-not-set error.
NoDeadlineNoIO ==
    (~ctx.ok /\ lookups # <<>>) =>
        /\ dial.status \in {"none", "refused"}
        /\ pc = "done" => /\ lookupRet.err # Nil
                          /\ result.kind \notin {"nil", "match"}
                          /\ result.text = "deadline not set"

\* C2: when the lookup succeeds, Run returns nil exactly when some element of
\* the normalized results equals the expected output as a string, whatever
\* the record type and the position of the element.
MatchIffPresent ==
    LookupSucceeded =>
        (result = Nil <=> conf.ExpectedOutput \in {addresses[i] : i \in DOMAIN addresses})

\* A match on a later element than the first.
MatchSecondReached ==
    /\ LookupSucceeded
    /\ result = Nil
    /\ Len(addresses) = 2
    /\ addresses[1] # conf.ExpectedOutput
    /\ addresses[2] = conf.ExpectedOutput

\* C3: when the config holds no port, Run composes its address with port 53,
\* and when it holds no record, Run performs the A lookup.
DefaultsApplyInRun ==
    (config.wellFormed /\ pc \notin {"new", "idle"}) =>
        /\ config.obj["port"] = Absent =>
               /\ conf.Port = DefaultPort
               /\ connStr = ConnStr(conf.Server, DefaultPort)
        /\ config.obj["record"] = Absent =>
               /\ conf.Record = DefaultRecord
               /\ lookups = <<LookupOf(DefaultRecord, conf.Domain)>>

\* The five constraints on a config, read from the config itself: the keys
\* without a default are present, of the right type and not empty; port and
\* record are absent or within their range.
NonEmptyString(v) == v.t = "string" /\ v.s # ""
ConfigOk(cfg) ==
    /\ cfg.wellFormed
    /\ NonEmptyString(cfg.obj["dns_server"])
    /\ NonEmptyString(cfg.obj["domain"])
    /\ NonEmptyString(cfg.obj["expected_output"])
    /\ \/ cfg.obj["port"] = Absent
       \/ cfg.obj["port"].t = "number" /\ cfg.obj["port"].n \in 1..65535
    /\ \/ cfg.obj["record"] = Absent
       \/ cfg.obj["record"].t = "string"
          /\ cfg.obj["record"].s \in {"A", "AAAA", "CNAME", "MX", "NS", "PTR", "TXT"}

\* C4: Validate returns nil exactly when the five constraints hold; a port of
\* 0 or outside 1..65535, a record outside the seven, or an empty server,
\* domain or expected output gets an error.
ValidateContract ==
    pc # "new" => (validateErr = Nil <=> ConfigOk(config))

\* Validate has rejected a config whose only fault is a port above 65535.
PortTooHighRejected ==
    /\ pc # "new"
    /\ validateErr # Nil
    /\ config.obj["port"] = Num(MaxPort + 1)
    /\ ConfigOk([config EXCEPT !.obj["port"] = Absent])

\* The results listed one after the other, built from the left.
RECURSIVE Listing(_, _)
Listing(addrs, n) ==
    IF n = 0 THEN ""
    ELSE IF n = 1 THEN addrs[1]
    ELSE Listing(addrs, n - 1) \o ", " \o addrs[n]

\* C5: when the lookup succeeds and no result equals the expected output,
\* Run's error names the expected output and lists the observed results, all
\* of them, in the order returned.
NotFoundListsAll ==
    (LookupSucceeded /\ conf.ExpectedOutput \notin {addresses[i] : i \in DOMAIN addresses}) =>
        /\ result.kind = "match"
        /\ result.text = "expected out \"" \o conf.ExpectedOutput
                          \o "\" not found in ["
                          \o Listing(addresses, Len(addresses)) \o "]"
        /\ Len(addresses) = IF conf.Record = "CNAME" THEN 1 ELSE Len(lookupRet.val)

\* Run has failed to find the expected output among two results.
NotFoundTwoReached ==
    /\ LookupSucceeded
    /\ result.kind = "match"
    /\ Len(addresses) = 2
    /\ addresses[1] # addresses[2]

JsonParses(cfg) ==
    /\ cfg.wellFormed
    /\ cfg.obj["port"].t \in {"absent", "number"}
    /\ \A k \in {"Server", "record", "domain", "ExpectedOutput"} :
          cfg.obj[k].t \in {"absent", "string"}

DoneInFlight == pc \in {"dialing", "exchange"} /\ CtxDone(ctx)
TimedOut ==
    /\ pc = "done"
    /\ result.kind = "lookup"
    /\ result.text \in {"i/o timeout", "operation was canceled"}

DialsComposedAddress ==
    dial.status \notin {"none", "refused"} =>
        /\ connStr = ConnStr(conf.Server, conf.Port)
        /\ dial.target = connStr
        /\ dial.network \in DialNetworks
        /\ dial.deadline.ok
        /\ dial.deadline = dial.cb
        /\ dial.ctxBound /\ dial.dialCtx = dial.cb
        /\ ctx.ok => dial.deadline.at <= ctx.at

\* A connection is open to the composed address although the resolver asked
\* for one of its own servers.
OpenToComposedReached ==
    /\ dial.status = "open"
    /\ dial.asked \in SystemServers
    /\ dial.target = "9.9.9.9:53"
    /\ dial.asked # dial.target
    /\ ctx.ok

\* C9: the normalized results are the element-wise image of the records the
\* lookup returned: same length and order, the String of each address, the
\* Host of each MX and NS, PTR and TXT values unchanged, and the one
\* canonical name for CNAME.
NormalizedImage ==
    LookupSucceeded =>
        LET val == lookupRet.val IN
        CASE conf.Record \in {"A", "AAAA"} ->
                /\ Len(addresses) = Len(val)
                /\ \A i \in 1..Len(val) : addresses[i] = IPString(val[i])
          [] conf.Record \in {"MX", "NS"} ->
                /\ Len(addresses) = Len(val)
                /\ \A i \in 1..Len(val) : addresses[i] = val[i].Host
          [] conf.Record \in {"PTR", "TXT"} -> addresses = val
          [] conf.Record = "CNAME" -> Len(addresses) = 1 /\ addresses[1] = val

\* Two MX records with different hosts have been normalized.
TwoMXNormalized ==
    /\ LookupSucceeded
    /\ conf.Record = "MX"
    /\ Len(lookupRet.val) = 2
    /\ lookupRet.val[1].Host # lookupRet.val[2].Host
    /\ addresses = <<lookupRet.val[1].Host, lookupRet.val[2].Host>>

\* C10: for every config Validate accepts, Run executes with the five field
\* values Validate checked: it never returns the unsupported-record error
\* and never dials an address with an empty server or port 0.
RunUsesValidatedFields ==
    (validateErr = Nil /\ pc \notin {"new", "idle"}) =>
        /\ conf = SchemaUnmarshal(config).conf
        /\ result.kind # "unsupported"
        /\ dial.status \notin {"none", "refused"} =>
               /\ conf.Server # ""
               /\ conf.Port # 0

====
